---- MODULE Spec2Model ----
(***************************************************************************)
(* Model of src/main.py (DreamHippo, the AI bedtime storyteller):          *)
(*   - parse_json_output, over texts made of lexical tokens;               *)
(*   - call_model under retry_with_backoff, with the process-wide          *)
(*     TOKEN_USAGE counter, called from concurrent request threads;        *)
(*   - generate_story_logic, the plan / write / evaluate / extras pipeline.*)
(*   - the retry_with_backoff wrapper with the delays it sleeps;           *)
(*   - the POST /generate handler's age argument and get_age_guidelines;   *)
(*   - estimate_reading_time.                                              *)
(*                                                                         *)
(* A text is a sequence of tokens; each token stands for the characters    *)
(* written in its string.  A Python value is a record tagged with its      *)
(* Python type in field t.                                                 *)
(***************************************************************************)
EXTENDS Integers, Sequences, FiniteSets, TLC

VARIABLES
    \* ---- the process
    api_key,       \* TRUE when OPENAI_API_KEY is set in the environment
    TOKEN_USAGE,   \* the global token tracker, [input, output]
    \* ---- call_model invoked by concurrent request threads (SpecCalls)
    c_pc,          \* per thread: "idle" | "call" | "load_in" | "store_in" |
                   \*   "load_out" | "store_out" | "returned" | "raised"
    c_x,           \* per thread: the wrapper's retry counter x
    c_calls,       \* per thread: times the wrapper called the wrapped function
    c_net,         \* per thread: requests sent to the service
    c_fails,       \* per thread: calls of the wrapped function that raised
    c_sleeps,      \* per thread: time.sleep calls made by the wrapper
    c_usage,       \* per thread: resp.usage of the response in hand
    c_old,         \* per thread: the counter value read by +=
    c_result,      \* per thread: what the invocation gave its caller
    reported,      \* sum of the usage the service reported, [input, output]
    \* ---- one invocation of generate_story_logic (Spec)
    pc,            \* "start" | "plan" | "write" | "evaluate" | "challenge" |
                   \*   "done"; the four in the middle: inside that stage's
                   \*   call_model invocation
    x,             \* the retry counter x of the call_model invocation under way
    net,           \* requests this invocation sent to the service
    topic,         \* the topic argument
    plan,          \* the parsed plan
    story_text,
    attempts,
    passed,
    critique,
    eval_result,
    score,
    feedback,
    directive,     \* the critique quoted in the latest write prompt
    reading_time,
    challenges,
    html_saved,    \* the file save_to_html wrote
    result,        \* how the invocation ended and what it returned
    trace,         \* the call_model invocations so far, by stage, and "save"
    drafts,        \* the drafts the write calls returned, in order
    evals,         \* the parsed evaluations, in order
    given,         \* the text handed to each post-processing step
    \* ---- parse_json_output (SpecParse)
    p_pc,          \* "ready" | "done"
    p_body,        \* the text between the fence markers
    p_text,        \* the whole response text handed to parse_json_output
    p_wrapped,     \* TRUE when p_text is p_body inside fence markers
    p_tag,         \* the language tag after the opening marker ("" for none)
    p_res_body,    \* outcome of parse_json_output(p_body)
    p_res_text,    \* outcome of parse_json_output(p_text)
    \* ---- one invocation of a retry_with_backoff wrapper (SpecRetry)
    r_pc,          \* "idle" | "call" | "returned" | "raised"
    r_retries,     \* the decorator's retries argument
    r_base,        \* the decorator's backoff_in_seconds argument
    r_x,           \* the wrapper's retry counter x
    r_fails,       \* calls of the wrapped function that raised
    r_delays,      \* the arguments of the time.sleep calls, in order, in ticks
    r_exc,         \* the exception the wrapper caught last
    \* ---- one POST /generate request (SpecRoute)
    g_pc,          \* "idle" | "request" | "logic" | "done"
    g_age_field,   \* the age member of the request's JSON body
    g_age,         \* the age argument given to generate_story_logic
    g_outcome,     \* how the handler went on: "none" | "called" | an exception
    g_guidelines,  \* the profile get_age_guidelines returned
    \* ---- estimate_reading_time (SpecRead)
    e_pc,          \* "idle" | "ready" | "done"
    e_text,        \* the text handed in
    e_words,       \* the number of words the text was made of
    e_time         \* the value returned

parseVars == <<p_pc, p_body, p_text, p_wrapped, p_tag, p_res_body, p_res_text>>

procVars == <<api_key, TOKEN_USAGE>>

callVars ==
    <<c_pc, c_x, c_calls, c_net, c_fails, c_sleeps, c_usage, c_old, c_result,
      reported>>

pipeVars ==
    <<pc, x, net, topic, plan, story_text, attempts, passed, critique,
      eval_result, score, feedback, directive, reading_time, challenges,
      html_saved, result, trace, drafts, evals, given>>

retryVars == <<r_pc, r_retries, r_base, r_x, r_fails, r_delays, r_exc>>

routeVars == <<g_pc, g_age_field, g_age, g_outcome, g_guidelines>>

readVars == <<e_pc, e_text, e_words, e_time>>

utilVars == <<retryVars, routeVars, readVars>>

vars == <<procVars, callVars, pipeVars, parseVars, utilVars>>

----------------------------------------------------------------------------
(* Tokens of a text.                                                       *)

\* the code-fence marker, three backquotes
FENCE == "<fence>"
TAGJSON == "json"
WORD == "py"
WS == " "
NULLTOK == "null"

\* a JSON string literal; STRFENCE holds a fence marker inside the string
STRPLAIN == "\"ab\""
STRFENCE == "\"a<fence>b\""
STRNINE == "\"9\""
STREMPTY == "\"\""
StrTok == {STRPLAIN, STRFENCE, STRNINE, STREMPTY}

\* a member name followed by its colon
KEYSCORE == "\"score\":"
KEYFEEDBACK == "\"feedback\":"
KEYSETUP == "\"setup\":"
KeyTok == {KEYSCORE, KEYFEEDBACK, KEYSETUP}

DigitTok == {"0", "3", "8", "9"}

Tokens ==
    {FENCE, TAGJSON, WORD, WS, NULLTOK, "{", "}", "[", "]", ","}
        \cup StrTok \cup KeyTok \cup DigitTok

StrContent(tok) ==
    CASE tok = STRPLAIN -> "ab"
      [] tok = STRFENCE -> "a<fence>b"
      [] tok = STRNINE -> "9"
      [] tok = STREMPTY -> ""

KeyName(tok) ==
    CASE tok = KEYSCORE -> "score"
      [] tok = KEYFEEDBACK -> "feedback"
      [] tok = KEYSETUP -> "setup"

DigitVal(tok) ==
    CASE tok = "0" -> 0
      [] tok = "3" -> 3
      [] tok = "8" -> 8
      [] tok = "9" -> 9

----------------------------------------------------------------------------
(* Python values.                                                          *)

PyNone == [t |-> "None"]
PyInt(n) == [t |-> "int", n |-> n]
PyStr(s) == [t |-> "str", s |-> s]
PyList(e) == [t |-> "list", e |-> e]
PyDict(m) == [t |-> "dict", m |-> m]

EmptyMap == [k \in {} |-> PyNone]
EmptyDict == PyDict(EmptyMap)

IsDict(v) == v.t = "dict"

\* bool(v): the truth value Python gives a value
Truthy(v) ==
    CASE v.t = "None" -> FALSE
      [] v.t = "int" -> v.n # 0
      [] v.t = "str" -> v.s # ""
      [] v.t = "list" -> Len(v.e) > 0
      [] v.t = "dict" -> DOMAIN v.m # {}

\* d.get(key, default) of a dict d
DictGet(d, key, default) ==
    IF key \in DOMAIN d.m THEN d.m[key] ELSE default

----------------------------------------------------------------------------
(* str.strip, str.startswith, str.replace on token texts.                  *)

RECURSIVE LStrip(_)
LStrip(s) ==
    IF s # <<>> /\ Head(s) = WS THEN LStrip(Tail(s)) ELSE s

RECURSIVE RStrip(_)
RStrip(s) ==
    IF s # <<>> /\ s[Len(s)] = WS THEN RStrip(SubSeq(s, 1, Len(s) - 1)) ELSE s

strip(s) == RStrip(LStrip(s))

startswith(s, prefix) ==
    /\ Len(s) >= Len(prefix)
    /\ SubSeq(s, 1, Len(prefix)) = prefix

\* s.replace(FENCE + "json", ""): every marker directly followed by the json tag
\* goes, scanning from the left
RECURSIVE replace_fence_json(_)
replace_fence_json(s) ==
    IF s = <<>> THEN <<>>
    ELSE IF startswith(s, <<FENCE, TAGJSON>>)
         THEN replace_fence_json(SubSeq(s, 3, Len(s)))
         ELSE <<Head(s)>> \o replace_fence_json(Tail(s))

\* s.replace(FENCE, ""): every marker goes, inside string literals too
RECURSIVE replace_fence(_)
replace_fence(s) ==
    IF s = <<>> THEN <<>>
    ELSE IF Head(s) = FENCE THEN replace_fence(Tail(s))
    ELSE IF Head(s) = STRFENCE THEN <<STRPLAIN>> \o replace_fence(Tail(s))
    ELSE <<Head(s)>> \o replace_fence(Tail(s))

----------------------------------------------------------------------------
(* json.loads: a recursive-descent parse of a token text.                  *)

ParseFail == [ok |-> FALSE, v |-> PyNone, i |-> 0]
ParseOk(v, i) == [ok |-> TRUE, v |-> v, i |-> i]

RECURSIVE SkipWs(_, _)
SkipWs(s, i) ==
    IF i <= Len(s) /\ s[i] = WS THEN SkipWs(s, i + 1) ELSE i

\* digits from i on, most significant first; a leading 0 stands alone
RECURSIVE NumRun(_, _, _)
NumRun(s, i, acc) ==
    IF i <= Len(s) /\ s[i] \in DigitTok
    THEN NumRun(s, i + 1, 10 * acc + DigitVal(s[i]))
    ELSE ParseOk(PyInt(acc), i)

ParseNumber(s, i) ==
    IF s[i] = "0" THEN ParseOk(PyInt(0), i + 1) ELSE NumRun(s, i, 0)

RECURSIVE ParseValue(_, _)
RECURSIVE ParseMembers(_, _, _)
RECURSIVE ParseElements(_, _, _)

\* the value that starts at token i
ParseValue(s, i) ==
    IF i > Len(s) THEN ParseFail
    ELSE CASE s[i] \in DigitTok -> ParseNumber(s, i)
           [] s[i] \in StrTok -> ParseOk(PyStr(StrContent(s[i])), i + 1)
           [] s[i] = NULLTOK -> ParseOk(PyNone, i + 1)
           [] s[i] = "{" ->
                LET j == SkipWs(s, i + 1) IN
                IF j <= Len(s) /\ s[j] = "}"
                THEN ParseOk(EmptyDict, j + 1)
                ELSE ParseMembers(s, j, EmptyMap)
           [] s[i] = "[" ->
                LET j == SkipWs(s, i + 1) IN
                IF j <= Len(s) /\ s[j] = "]"
                THEN ParseOk(PyList(<<>>), j + 1)
                ELSE ParseElements(s, j, <<>>)
           [] OTHER -> ParseFail

\* members of an object from token j on; a repeated name keeps the last value
ParseMembers(s, j, m) ==
    IF j > Len(s) \/ s[j] \notin KeyTok THEN ParseFail
    ELSE LET r == ParseValue(s, SkipWs(s, j + 1)) IN
         IF ~r.ok THEN ParseFail
         ELSE LET m2 == (KeyName(s[j]) :> r.v) @@ m
                  k == SkipWs(s, r.i)
              IN  IF k > Len(s) THEN ParseFail
                  ELSE IF s[k] = "}" THEN ParseOk(PyDict(m2), k + 1)
                  ELSE IF s[k] = "," THEN ParseMembers(s, SkipWs(s, k + 1), m2)
                  ELSE ParseFail

\* elements of an array from token j on
ParseElements(s, j, e) ==
    LET r == ParseValue(s, j) IN
    IF ~r.ok THEN ParseFail
    ELSE LET e2 == Append(e, r.v)
             k == SkipWs(s, r.i)
         IN  IF k > Len(s) THEN ParseFail
             ELSE IF s[k] = "]" THEN ParseOk(PyList(e2), k + 1)
             ELSE IF s[k] = "," THEN ParseElements(s, SkipWs(s, k + 1), e2)
             ELSE ParseFail

\* json.loads(s): [raised |-> TRUE] stands for json.JSONDecodeError
json_loads(s) ==
    LET r == ParseValue(s, SkipWs(s, 1)) IN
    IF r.ok /\ SkipWs(s, r.i) > Len(s)
    THEN [raised |-> FALSE, v |-> r.v]
    ELSE [raised |-> TRUE, v |-> PyNone]

----------------------------------------------------------------------------
(* parse_json_output                                                       *)

clean_text(response_text) ==
    LET stripped == strip(response_text) IN
    IF startswith(stripped, <<FENCE, TAGJSON>>)
    THEN replace_fence(replace_fence_json(stripped))
    ELSE IF startswith(stripped, <<FENCE>>)
    THEN replace_fence(stripped)
    ELSE stripped

\* what json.loads gave is returned as it is; only JSONDecodeError is caught
parse_json_output(response_text) ==
    LET r == json_loads(clean_text(response_text)) IN
    IF r.raised THEN EmptyDict ELSE r.v

\* values of the pipeline's variables before anything is assigned
Unset == [t |-> "unset"]
NoText == "<none>"
NoOutcome == [kind |-> "none"]
NoFile == [filename |-> NoText, story |-> NoText, challenges |-> NoText]
NothingGiven == [reading |-> NoText, challenge |-> NoText, save |-> NoText]

IdlePipeLocals ==
    /\ x = 0
    /\ net = 0
    /\ plan = Unset
    /\ story_text = ""
    /\ attempts = 0
    /\ passed = FALSE
    /\ critique = PyNone
    /\ eval_result = Unset
    /\ score = Unset
    /\ feedback = Unset
    /\ directive = PyNone
    /\ reading_time = Unset
    /\ challenges = NoText
    /\ html_saved = NoFile
    /\ result = NoOutcome
    /\ trace = <<>>
    /\ drafts = <<>>
    /\ evals = <<>>
    /\ given = NothingGiven

IdlePipe ==
    /\ pc = "idle"
    /\ topic = PyNone
    /\ IdlePipeLocals

IdleParse ==
    /\ p_pc = "idle"
    /\ p_body = <<>>
    /\ p_text = <<>>
    /\ p_wrapped = FALSE
    /\ p_tag = ""
    /\ p_res_body = PyNone
    /\ p_res_text = PyNone

IdleRetry ==
    /\ r_pc = "idle"
    /\ r_retries = 0
    /\ r_base = 0
    /\ r_x = 0
    /\ r_fails = 0
    /\ r_delays = <<>>
    /\ r_exc = NoText

IdleRoute ==
    /\ g_pc = "idle"
    /\ g_age_field = Unset
    /\ g_age = Unset
    /\ g_outcome = "none"
    /\ g_guidelines = NoText

IdleRead ==
    /\ e_pc = "idle"
    /\ e_text = <<>>
    /\ e_words = 0
    /\ e_time = Unset

IdleUtil == IdleRetry /\ IdleRoute /\ IdleRead

----------------------------------------------------------------------------
(* get_api_key, retry_with_backoff and call_model.                         *)

\* retries=3 of @retry_with_backoff(retries=3) on call_model
Retries == 3

\* get_api_key(): None when the environment variable is not set
get_api_key_found(key) == key

\* a wrapper that gives up one failure late
wrapper_raises_late(count, retries) == count = retries + 1

\* line 56 of the wrapper: the exception is re-raised when x == retries
wrapper_raises(count, retries) == count = retries

\* resp.usage: absent, or the prompt and completion token counts
NoUsage == [present |-> FALSE, prompt_tokens |-> 0, completion_tokens |-> 0]
Usage(i, o) == [present |-> TRUE, prompt_tokens |-> i, completion_tokens |-> o]
Usages == {NoUsage, Usage(100, 50), Usage(200, 80)}

ZeroUsage == [input |-> 0, output |-> 0]

\* the two += of call_model, done with nothing in between
track_usage(tu, usage) ==
    IF usage.present
    THEN [input |-> tu.input + usage.prompt_tokens,
          output |-> tu.output + usage.completion_tokens]
    ELSE tu

\* what an invocation gives its caller
NoResult == [kind |-> "none", text |-> ""]
Returned(text) == [kind |-> "text", text |-> text]
Raised(exc) == [kind |-> "raised", text |-> exc]

\* call_model when no key is configured: the empty text is returned
missing_key_result == Returned("")

IdleProc ==
    /\ api_key = TRUE
    /\ TOKEN_USAGE = ZeroUsage

----------------------------------------------------------------------------
(* SpecCalls: request threads invoking call_model concurrently.            *)

NumThreads == 2
Threads == 1..NumThreads

IdleCalls ==
    /\ c_pc = [t \in Threads |-> "idle"]
    /\ c_x = [t \in Threads |-> 0]
    /\ c_calls = [t \in Threads |-> 0]
    /\ c_net = [t \in Threads |-> 0]
    /\ c_fails = [t \in Threads |-> 0]
    /\ c_sleeps = [t \in Threads |-> 0]
    /\ c_usage = [t \in Threads |-> NoUsage]
    /\ c_old = [t \in Threads |-> 0]
    /\ c_result = [t \in Threads |-> NoResult]
    /\ reported = ZeroUsage

InitCalls ==
    /\ api_key \in BOOLEAN
    /\ TOKEN_USAGE = ZeroUsage
    /\ IdleCalls
    /\ IdlePipe
    /\ IdleParse
    /\ IdleUtil

\* wrapper(*args): x = 0, then the loop
Invoke(t) ==
    /\ c_pc[t] = "idle"
    /\ c_pc' = [c_pc EXCEPT ![t] = "call"]
    /\ c_x' = [c_x EXCEPT ![t] = 0]
    /\ UNCHANGED <<procVars, c_calls, c_net, c_fails, c_sleeps, c_usage, c_old,
                   c_result, reported, pipeVars, parseVars, utilVars>>

\* func(): no key, so "" is returned before any client is made
CallWithoutKey(t) ==
    /\ c_pc[t] = "call"
    /\ ~get_api_key_found(api_key)
    /\ c_calls' = [c_calls EXCEPT ![t] = @ + 1]
    /\ c_result' = [c_result EXCEPT ![t] = missing_key_result]
    /\ c_pc' = [c_pc EXCEPT ![t] = "returned"]
    /\ UNCHANGED <<procVars, c_x, c_net, c_fails, c_sleeps, c_usage, c_old,
                   reported, pipeVars, parseVars, utilVars>>

\* func(): client.chat.completions.create raises; the wrapper re-raises when
\* x == retries, and otherwise sleeps, adds 1 to x and calls again
CallFails(t) ==
    /\ c_pc[t] = "call"
    /\ get_api_key_found(api_key)
    /\ c_calls' = [c_calls EXCEPT ![t] = @ + 1]
    /\ c_net' = [c_net EXCEPT ![t] = @ + 1]
    /\ c_fails' = [c_fails EXCEPT ![t] = @ + 1]
    /\ IF wrapper_raises(c_x[t], Retries)
       THEN /\ c_result' = [c_result EXCEPT ![t] = Raised("APIError")]
            /\ c_pc' = [c_pc EXCEPT ![t] = "raised"]
            /\ UNCHANGED <<c_x, c_sleeps>>
       ELSE /\ c_sleeps' = [c_sleeps EXCEPT ![t] = @ + 1]
            /\ c_x' = [c_x EXCEPT ![t] = @ + 1]
            /\ UNCHANGED <<c_result, c_pc>>
    /\ UNCHANGED <<procVars, c_usage, c_old, reported, pipeVars, parseVars,
                   utilVars>>

\* func(): the service answers; with resp.usage absent the text is returned
\* at once, otherwise the two += follow
CallResponds(t) ==
    /\ c_pc[t] = "call"
    /\ get_api_key_found(api_key)
    /\ \E u \in Usages :
        /\ c_usage' = [c_usage EXCEPT ![t] = u]
        /\ reported' = track_usage(reported, u)
        /\ IF u.present
           THEN /\ c_pc' = [c_pc EXCEPT ![t] = "load_in"]
                /\ UNCHANGED c_result
           ELSE /\ c_pc' = [c_pc EXCEPT ![t] = "returned"]
                /\ c_result' = [c_result EXCEPT ![t] = Returned("text")]
    /\ c_calls' = [c_calls EXCEPT ![t] = @ + 1]
    /\ c_net' = [c_net EXCEPT ![t] = @ + 1]
    /\ UNCHANGED <<procVars, c_x, c_fails, c_sleeps, c_old, pipeVars, parseVars,
                   utilVars>>

\* TOKEN_USAGE["input"] += prompt_tokens: the read
LoadInput(t) ==
    /\ c_pc[t] = "load_in"
    /\ c_old' = [c_old EXCEPT ![t] = TOKEN_USAGE.input]
    /\ c_pc' = [c_pc EXCEPT ![t] = "store_in"]
    /\ UNCHANGED <<procVars, c_x, c_calls, c_net, c_fails, c_sleeps, c_usage,
                   c_result, reported, pipeVars, parseVars, utilVars>>

\* TOKEN_USAGE["input"] += prompt_tokens: the write
StoreInput(t) ==
    /\ c_pc[t] = "store_in"
    /\ TOKEN_USAGE' =
          [TOKEN_USAGE EXCEPT !.input = c_old[t] + c_usage[t].prompt_tokens]
    /\ c_pc' = [c_pc EXCEPT ![t] = "load_out"]
    /\ UNCHANGED <<api_key, c_x, c_calls, c_net, c_fails, c_sleeps, c_usage,
                   c_old, c_result, reported, pipeVars, parseVars, utilVars>>

\* TOKEN_USAGE["output"] += completion_tokens: the read
LoadOutput(t) ==
    /\ c_pc[t] = "load_out"
    /\ c_old' = [c_old EXCEPT ![t] = TOKEN_USAGE.output]
    /\ c_pc' = [c_pc EXCEPT ![t] = "store_out"]
    /\ UNCHANGED <<procVars, c_x, c_calls, c_net, c_fails, c_sleeps, c_usage,
                   c_result, reported, pipeVars, parseVars, utilVars>>

\* TOKEN_USAGE["output"] += completion_tokens: the write, then the return
StoreOutput(t) ==
    /\ c_pc[t] = "store_out"
    /\ TOKEN_USAGE' =
          [TOKEN_USAGE EXCEPT !.output = c_old[t] + c_usage[t].completion_tokens]
    /\ c_result' = [c_result EXCEPT ![t] = Returned("text")]
    /\ c_pc' = [c_pc EXCEPT ![t] = "returned"]
    /\ UNCHANGED <<api_key, c_x, c_calls, c_net, c_fails, c_sleeps, c_usage,
                   c_old, reported, pipeVars, parseVars, utilVars>>

NextCalls ==
    \E t \in Threads :
        \/ Invoke(t)
        \/ CallWithoutKey(t)
        \/ CallFails(t)
        \/ CallResponds(t)
        \/ LoadInput(t)
        \/ StoreInput(t)
        \/ LoadOutput(t)
        \/ StoreOutput(t)

SpecCalls == InitCalls /\ [][NextCalls]_vars

CallOver(t) == c_pc[t] \in {"returned", "raised"}

\* C5: with no credential configured, an invocation of call_model ends in
\* an explicit error, with no request sent, no retry and no sleep; it does
\* not return a text.
C5_MissingKeyIsError ==
    \A t \in Threads :
        ~api_key /\ CallOver(t) =>
            /\ c_result[t].kind = "raised"
            /\ c_net[t] = 0
            /\ c_sleeps[t] = 0
            /\ c_calls[t] = 1

\* C6: an invocation that returns after k failures has k <= N, made k + 1
\* calls and slept k times; an invocation whose wrapped call failed N + 1
\* times has raised, after N + 1 calls and N sleeps; while it runs it has
\* slept once per failure; no invocation makes more than N + 1 calls.
C6_RetryCap ==
    \A t \in Threads :
        /\ c_calls[t] <= Retries + 1
        /\ c_pc[t] \notin {"idle", "call", "raised"} =>
              /\ c_fails[t] <= Retries
              /\ c_calls[t] = c_fails[t] + 1
              /\ c_sleeps[t] = c_fails[t]
        /\ c_pc[t] = "call" =>
              /\ c_fails[t] <= Retries
              /\ c_calls[t] = c_fails[t]
              /\ c_sleeps[t] = c_fails[t]
        /\ c_fails[t] = Retries + 1 <=> c_pc[t] = "raised"
        /\ c_pc[t] = "raised" =>
              /\ c_calls[t] = Retries + 1
              /\ c_sleeps[t] = Retries
              /\ c_result[t].kind = "raised"

\* one thread returned on its last allowed call, another raised
C6_Witness ==
    \E t, u \in Threads :
        /\ c_pc[t] = "returned"
        /\ c_fails[t] = Retries
        /\ c_calls[t] = Retries + 1
        /\ c_pc[u] = "raised"

\* C7: once every invocation is over, the counter holds the sum of the
\* input and output token counts the service reported; no += is lost.
C7_NoLostUpdate ==
    (\A t \in Threads : CallOver(t)) => TOKEN_USAGE = reported

\* C14: a step changes the counter only by adding the counts one answer
\* reported to the count they belong to: a failed call leaves both counts as
\* they were, and no step resets or lowers a count.
C14_CounterOnlyGrows ==
    [][/\ TOKEN_USAGE'.input >= TOKEN_USAGE.input
       /\ TOKEN_USAGE'.output >= TOKEN_USAGE.output
       /\ (\E t \in Threads : c_fails'[t] # c_fails[t]) =>
              TOKEN_USAGE' = TOKEN_USAGE
       /\ TOKEN_USAGE' # TOKEN_USAGE =>
              \E t \in Threads :
                  /\ c_usage[t].present
                  /\ \/ TOKEN_USAGE' =
                           [TOKEN_USAGE EXCEPT
                               !.input = @ + c_usage[t].prompt_tokens]
                     \/ TOKEN_USAGE' =
                           [TOKEN_USAGE EXCEPT
                               !.output = @ + c_usage[t].completion_tokens]
      ]_vars

----------------------------------------------------------------------------
(* SpecRetry: one invocation of a function wrapped by retry_with_backoff,  *)
(* with the delays it sleeps.  Time is counted in ticks, JitterSteps to    *)
(* the second, so that random.uniform(0, 1) is a whole number of ticks     *)
(* below JitterSteps.                                                      *)

JitterSteps == 4
MaxRetriesArg == 3
MaxBackoff == 2

RECURSIVE Pow2(_)
Pow2(n) == IF n = 0 THEN 1 ELSE 2 * Pow2(n - 1)

\* random.uniform(0, 1), in ticks
Jitters == 0..(JitterSteps - 1)

\* a delay that grows by the base at every retry
sleep_linear(backoff, count, jitter) ==
    backoff * (count + 1) * JitterSteps + jitter

\* sleep = backoff_in_seconds * 2 ** x + random.uniform(0, 1), in ticks
sleep(backoff, count, jitter) == backoff * Pow2(count) * JitterSteps + jitter

\* what the wrapped function may raise: a service error that may pass, and
\* one that will not
Exceptions == {"APIConnectionError", "AuthenticationError"}

InitRetry ==
    /\ IdleProc
    /\ IdleCalls
    /\ IdlePipe
    /\ IdleParse
    /\ IdleRoute
    /\ IdleRead
    /\ r_pc = "call"
    /\ r_retries \in 0..MaxRetriesArg
    /\ r_base \in 1..MaxBackoff
    /\ r_x = 0
    /\ r_fails = 0
    /\ r_delays = <<>>
    /\ r_exc = NoText

\* func(*args, **kwargs) raises: "except Exception as e" catches whatever it
\* is; the wrapper re-raises it when x == retries, otherwise sleeps and
\* adds 1 to x
WrappedRaises ==
    /\ r_pc = "call"
    /\ \E e \in Exceptions, jitter \in Jitters :
        /\ r_exc' = e
        /\ r_fails' = r_fails + 1
        /\ IF wrapper_raises(r_x, r_retries)
           THEN /\ r_pc' = "raised"
                /\ UNCHANGED <<r_x, r_delays>>
           ELSE /\ r_delays' = Append(r_delays, sleep(r_base, r_x, jitter))
                /\ r_x' = r_x + 1
                /\ UNCHANGED r_pc
    /\ UNCHANGED <<r_retries, r_base>>
    /\ UNCHANGED <<procVars, callVars, pipeVars, parseVars, routeVars,
                   readVars>>

\* func(*args, **kwargs) returns, and the wrapper returns its value
WrappedReturns ==
    /\ r_pc = "call"
    /\ r_pc' = "returned"
    /\ UNCHANGED <<r_retries, r_base, r_x, r_fails, r_delays, r_exc>>
    /\ UNCHANGED <<procVars, callVars, pipeVars, parseVars, routeVars,
                   readVars>>

NextRetry == WrappedRaises \/ WrappedReturns

SpecRetry == InitRetry /\ [][NextRetry]_vars

RECURSIVE SumSeq(_)
SumSeq(seq) == IF seq = <<>> THEN 0 ELSE Head(seq) + SumSeq(Tail(seq))

\* the whole seconds of a delay: its part without the jitter
WholeSeconds(ticks) == ticks \div JitterSteps

\* C15: the i-th sleep, made after the failure of attempt x = i - 1, lasts
\* base * 2^x seconds plus a jitter in [0, 1); the whole-second part doubles
\* from one sleep to the next and over k sleeps adds up to base * (2^k - 1);
\* there is one sleep per failure, except that no sleep follows the failure
\* that exhausts the cap.
C15_BackoffDelays ==
    LET k == Len(r_delays) IN
    /\ \A i \in 1..k :
          /\ r_delays[i] >= r_base * Pow2(i - 1) * JitterSteps
          /\ r_delays[i] < (r_base * Pow2(i - 1) + 1) * JitterSteps
          /\ i > 1 =>
                /\ WholeSeconds(r_delays[i]) = 2 * WholeSeconds(r_delays[i - 1])
                /\ r_delays[i] > r_delays[i - 1]
    /\ SumSeq([i \in 1..k |-> WholeSeconds(r_delays[i])]) =
          r_base * (Pow2(k) - 1)
    /\ k <= r_retries
    /\ IF r_pc = "raised"
       THEN r_fails = r_retries + 1 /\ k = r_retries
       ELSE k = r_fails

\* call_model's wrapper (retries = 3, base 1) slept three times, each time
\* with a jitter, and then gave up
C15_Witness ==
    /\ r_pc = "raised"
    /\ r_retries = Retries
    /\ r_base = 1
    /\ Len(r_delays) = Retries
    /\ \A i \in DOMAIN r_delays : r_delays[i] % JitterSteps # 0

\* the failures that no retry can cure
FatalExceptions == {"AuthenticationError"}

\* C22: the wrapper retries transient failures only: once the wrapped
\* function has raised a fatal one, the wrapper has raised it to its caller,
\* with no sleep after it and no further call.
C22_FatalNotRetried ==
    r_exc \in FatalExceptions =>
        /\ r_pc = "raised"
        /\ Len(r_delays) = r_fails - 1

----------------------------------------------------------------------------
(* Spec: one invocation of generate_story_logic.                           *)

\* max_retries = 2
max_retries == 2

\* the pass mark of "if score >= 8"
PassScore == 8

\* words read aloud per minute
WordsPerMinute == 150

\* a plan that keeps "if not plan" from returning
PlanDoc == <<"{", KEYSETUP, STRPLAIN, "}">>

\* what the service may answer the planner: an object, an empty object, no
\* JSON at all, an empty array, an array
PlanTexts == {PlanDoc, <<"{", "}">>, <<WORD>>, <<"[", "]">>, <<"[", "9", "]">>}

\* what the service may answer the judge
JudgeTexts ==
    { <<"{", KEYSCORE, "9", ",", KEYFEEDBACK, STRPLAIN, "}">>,
      <<"{", KEYSCORE, "8", "}">>,
      <<"{", KEYSCORE, "3", ",", KEYFEEDBACK, STRPLAIN, "}">>,
      <<"{", KEYSCORE, "0", ",", KEYFEEDBACK, STREMPTY, "}">>,
      <<"{", KEYFEEDBACK, STRPLAIN, "}">>,
      <<WORD>>,
      <<"[", "9", "]">>,
      <<"{", KEYSCORE, STRNINE, "}">> }

\* drafts the service may answer the storyteller, with their word counts
Drafts == {"d1", "d2"}
WordCount(text) ==
    CASE text = "d1" -> 150
      [] text = "d2" -> 151
      [] OTHER -> 0

ChallengeTexts == {"words"}

Topics == {PyNone, PyStr("Moon Cat")}

\* title.replace(' ', '_').lower() + ".html"
html_filename(title) ==
    CASE title = "Moon Cat" -> "moon_cat.html"
      [] OTHER -> title

\* a quotient rounded down
floor_quotient(n, d) == n \div d

\* math.ceil(n / d)
ceil_quotient(n, d) == IF n % d = 0 THEN n \div d ELSE n \div d + 1

\* minutes = math.ceil(word_count / 150)
reading_minutes(word_count) == ceil_quotient(word_count, WordsPerMinute)

\* f"{minutes} min read"
min_read(minutes) == <<minutes, "min read">>

\* estimate_reading_time of a draft, a text known by its name
estimate_reading_time(text) == min_read(reading_minutes(WordCount(text)))

\* a planning check that lets every plan through
plan_never_fails(p) == FALSE

\* "if not plan"
plan_failed(p) == ~Truthy(p)

\* a loop that goes on after a passing score
loop_ignores_passed(att, pas) == att <= max_retries

\* a loop that allows one cycle less
loop_one_short(att, pas) == att < max_retries /\ ~pas

\* a loop that allows one cycle more
loop_one_more(att, pas) == att <= max_retries + 1 /\ ~pas

\* "while attempts <= max_retries and not passed"
loop_continues(att, pas) == att <= max_retries /\ ~pas

\* a default score that clears the pass mark
eval_score_passing_default(ev) == DictGet(ev, "score", PyInt(PassScore))

\* eval_result.get("score", 0)
eval_score(ev) == DictGet(ev, "score", PyInt(0))

\* eval_result.get("feedback", "No feedback provided.")
eval_feedback(ev) == DictGet(ev, "feedback", PyStr("No feedback provided."))

\* "score >= 8" for an int score
score_passes(sc) == sc.n >= PassScore

\* a loop that keeps the first draft it got
keep_first_draft(old, draft) == IF old = "" THEN draft ELSE old

\* story_text = storyteller.write_story(...)
story_after_write(old, draft) == draft

\* what generate_story_logic gives its caller
ErrorResult(msg) == [kind |-> "error", error |-> msg]
RaisedOut(exc) == [kind |-> "raised", exc |-> exc]
OkResult(story, chal, rt, file) ==
    [kind |-> "ok", story |-> story, challenges |-> chal, reading_time |-> rt,
     html_file |-> file]

\* the usage the service reports on an answer to the pipeline
PipelineUsages == {Usage(100, 50)}

\* what one call_model invocation may return: the service's answer, or the
\* empty text when no key is configured
CallReturns(contents, empty) ==
    IF get_api_key_found(api_key)
    THEN {[text |-> c, usage |-> u, sent |-> 1] :
             c \in contents, u \in PipelineUsages}
    ELSE {[text |-> empty, usage |-> NoUsage, sent |-> 0]}

CallStages == {"plan", "write", "evaluate", "challenge"}

Init ==
    /\ api_key \in BOOLEAN
    /\ TOKEN_USAGE = ZeroUsage
    /\ IdleCalls
    /\ IdleParse
    /\ pc = "start"
    /\ topic \in Topics
    /\ IdlePipeLocals
    /\ IdleUtil

\* the return of a call_model invocation: usage tracked, x gone
Returning(r) ==
    /\ TOKEN_USAGE' = track_usage(TOKEN_USAGE, r.usage)
    /\ net' = net + r.sent
    /\ x' = 0
    /\ UNCHANGED <<api_key, topic, callVars, parseVars, utilVars>>

\* an exception leaves generate_story_logic
Escapes(exc) ==
    /\ pc' = "done"
    /\ result' = RaisedOut(exc)

\* the loop test and what follows it: another write_story call, which reads
\* plan.get and raises on a plan that is no dict, or the extras
LoopTest(pl, att, pas, crit, story) ==
    IF loop_continues(att, pas)
    THEN IF IsDict(pl)
         THEN /\ pc' = "write"
              /\ directive' = (IF Truthy(crit) THEN crit ELSE PyNone)
              /\ trace' = Append(trace, "write")
              /\ UNCHANGED <<result, reading_time, given>>
         ELSE /\ Escapes("AttributeError")
              /\ UNCHANGED <<directive, trace, reading_time, given>>
    ELSE /\ reading_time' = estimate_reading_time(story)
         /\ pc' = "challenge"
         /\ trace' = Append(trace, "challenge")
         /\ given' = [given EXCEPT !.reading = story, !.challenge = story]
         /\ UNCHANGED <<result, directive>>

\* lines 466-480: guidelines, request text, agents, then planner.plan_story
Start ==
    /\ pc = "start"
    /\ pc' = "plan"
    /\ x' = 0
    /\ trace' = Append(trace, "plan")
    /\ UNCHANGED <<procVars, callVars, parseVars, utilVars, net, topic, plan,
                   story_text,
                   attempts, passed, critique, eval_result, score, feedback,
                   directive, reading_time, challenges, html_saved, result,
                   drafts, evals, given>>

\* the request of the invocation under way raises; the wrapper re-raises when
\* x == retries and nothing in the pipeline catches it, otherwise it sleeps
NetworkFails ==
    /\ pc \in CallStages
    /\ get_api_key_found(api_key)
    /\ net' = net + 1
    /\ IF wrapper_raises(x, Retries)
       THEN /\ Escapes("APIError")
            /\ UNCHANGED x
       ELSE /\ x' = x + 1
            /\ UNCHANGED <<pc, result>>
    /\ UNCHANGED <<procVars, callVars, parseVars, utilVars, topic, plan,
                   story_text,
                   attempts, passed, critique, eval_result, score, feedback,
                   directive, reading_time, challenges, html_saved, trace,
                   drafts, evals, given>>

\* plan_story returns; "if not plan" returns the error, else the loop starts
PlanReturns ==
    /\ pc = "plan"
    /\ \E r \in CallReturns(PlanTexts, <<>>) :
        LET p == parse_json_output(r.text) IN
        /\ Returning(r)
        /\ plan' = p
        /\ IF plan_failed(p)
           THEN /\ pc' = "done"
                /\ result' = ErrorResult("Planning failed")
                /\ UNCHANGED <<directive, trace, reading_time, given>>
           ELSE LoopTest(p, attempts, passed, critique, story_text)
    /\ UNCHANGED <<story_text, attempts, passed, critique, eval_result, score,
                   feedback, challenges, html_saved, drafts, evals>>

\* write_story returns the draft; judge.evaluate is called with it
WriteReturns ==
    /\ pc = "write"
    /\ \E r \in CallReturns(Drafts, "") :
        /\ Returning(r)
        /\ story_text' = story_after_write(story_text, r.text)
        /\ drafts' = Append(drafts, r.text)
    /\ pc' = "evaluate"
    /\ trace' = Append(trace, "evaluate")
    /\ UNCHANGED <<plan, attempts, passed, critique, eval_result, score,
                   feedback, directive, reading_time, challenges, html_saved,
                   result, evals, given>>

\* evaluate returns; lines 494-503, then the loop test
EvaluateReturns ==
    /\ pc = "evaluate"
    /\ \E r \in CallReturns(JudgeTexts, <<>>) :
        LET ev == parse_json_output(r.text) IN
        /\ Returning(r)
        /\ eval_result' = ev
        /\ evals' = Append(evals, ev)
        /\ IF ~IsDict(ev)
           THEN \* eval_result.get on a value that is no dict
                /\ Escapes("AttributeError")
                /\ UNCHANGED <<score, feedback, passed, attempts, critique,
                               directive, trace, reading_time, given>>
           ELSE /\ score' = eval_score(ev)
                /\ feedback' = eval_feedback(ev)
                /\ IF score'.t # "int"
                   THEN \* score >= 8 on a score that is no number
                        /\ Escapes("TypeError")
                        /\ UNCHANGED <<passed, attempts, critique, directive,
                                       trace, reading_time, given>>
                   ELSE /\ passed' = score_passes(score')
                        /\ attempts' = IF passed' THEN attempts ELSE attempts + 1
                        /\ critique' = IF passed' THEN critique ELSE feedback'
                        /\ LoopTest(plan, attempts', passed', critique',
                                    story_text)
    /\ UNCHANGED <<plan, story_text, challenges, html_saved, drafts>>

\* extract_challenge_words returns; save_to_html, then the result
ChallengeReturns ==
    /\ pc = "challenge"
    /\ \E r \in CallReturns(ChallengeTexts, ""), disk_ok \in BOOLEAN :
        /\ Returning(r)
        /\ challenges' = r.text
        /\ trace' = Append(trace, "save")
        /\ given' = [given EXCEPT !.save = story_text]
        /\ IF topic.t # "str"
           THEN \* title.replace on a title that is no text
                /\ Escapes("AttributeError")
                /\ UNCHANGED html_saved
           ELSE /\ html_saved' =
                      IF disk_ok
                      THEN [filename |-> html_filename(topic.s),
                            story |-> story_text, challenges |-> r.text]
                      ELSE html_saved
                /\ result' = OkResult(story_text, r.text, reading_time, PyNone)
                /\ pc' = "done"
    /\ UNCHANGED <<plan, story_text, attempts, passed, critique, eval_result,
                   score, feedback, directive, reading_time, drafts, evals>>

Next ==
    \/ Start
    \/ NetworkFails
    \/ PlanReturns
    \/ WriteReturns
    \/ EvaluateReturns
    \/ ChallengeReturns

Spec == Init /\ [][Next]_vars

\* the request thread keeps running: it is not suspended for ever while a
\* step of the invocation is possible, and the service answers or fails
\* every request
SpecLive == Spec /\ WF_vars(Next)

----------------------------------------------------------------------------
(* Properties of generate_story_logic.                                     *)

Count(seq, e) == Cardinality({i \in DOMAIN seq : seq[i] = e})
Last(seq) == seq[Len(seq)]

Writes == Count(trace, "write")
Evaluations == Count(trace, "evaluate")

\* the loop is over: the extras have begun
LoopExited == Count(trace, "challenge") > 0
Accepted == LoopExited /\ passed
Exhausted == LoopExited /\ ~passed
Failed == result.kind = "error"

HasScore(ev) == IsDict(ev) /\ "score" \in DOMAIN ev.m

\* an evaluation whose score is a number >= T
IsPassing(ev) ==
    /\ HasScore(ev)
    /\ ev.m["score"].t = "int"
    /\ ev.m["score"].n >= PassScore

\* an evaluation whose score is a number < T, or is absent
ScoreBelow(ev) ==
    /\ IsDict(ev)
    /\ HasScore(ev) => ev.m["score"].t = "int" /\ ev.m["score"].n < PassScore

ScoreNumber(ev) == IF HasScore(ev) THEN ev.m["score"].n ELSE 0

\* C1: the loop ends Accepted at the first evaluation whose score is >= T,
\* and no write or evaluate call follows it; with a judge that passes the
\* first draft there is one write and one evaluate.
C1_AcceptedAtFirstPass ==
    /\ \A i \in DOMAIN evals :
          IsPassing(evals[i]) =>
              /\ i = Len(evals)
              /\ Writes = i
              /\ Evaluations = i
              /\ Accepted
    /\ Accepted => evals # <<>> /\ IsPassing(Last(evals))

\* a run accepted at its second evaluation and returned
C1_Witness ==
    /\ result.kind = "ok"
    /\ Accepted
    /\ Len(evals) = 2
    /\ ~IsPassing(evals[1])

\* C2: when every evaluation scores below T the loop makes exactly
\* max_retries + 1 write and evaluate calls and ends Exhausted; a run that
\* ended Exhausted never gives the error result, and what it returns
\* carries a story.
C2_ExhaustedAfterAllAttempts ==
    LET allBelow == \A i \in DOMAIN evals : ScoreBelow(evals[i]) IN
    /\ LoopExited /\ allBelow =>
          /\ Writes = max_retries + 1
          /\ Evaluations = max_retries + 1
          /\ Len(evals) = max_retries + 1
          /\ Exhausted
    /\ Len(evals) = max_retries + 1 /\ allBelow => LoopExited
    /\ Exhausted => allBelow /\ Len(evals) = max_retries + 1
    /\ Exhausted => ~Failed
    /\ Exhausted /\ result.kind = "ok" =>
          /\ result.story \in Drafts
          /\ result.story = Last(drafts)

\* a run that ended Exhausted and returned
C2_Witness ==
    /\ Exhausted
    /\ result.kind = "ok"
    /\ Evaluations = max_retries + 1
    /\ \A i \in DOMAIN evals : HasScore(evals[i]) /\ evals[i].m["score"].n = 3

\* C3: the story returned, and the text given to reading-time estimation,
\* challenge-word extraction and persistence, is the draft of the last
\* write call, whatever the earlier drafts scored.
C3_LastDraftReturned ==
    /\ LoopExited =>
          /\ drafts # <<>>
          /\ story_text = Last(drafts)
          /\ given.reading = Last(drafts)
          /\ given.challenge = Last(drafts)
          /\ reading_time = estimate_reading_time(Last(drafts))
          /\ given.save \in {NoText, Last(drafts)}
          /\ html_saved # NoFile => html_saved.story = Last(drafts)
    /\ result.kind = "ok" =>
          /\ result.story = Last(drafts)
          /\ result.reading_time = estimate_reading_time(Last(drafts))
          /\ given.save = Last(drafts)

\* a returned run whose last draft scored lower than an earlier, different one
C3_Witness ==
    /\ result.kind = "ok"
    /\ html_saved # NoFile
    /\ \E i \in DOMAIN drafts :
          /\ i < Len(drafts)
          /\ drafts[i] # Last(drafts)
          /\ ScoreNumber(evals[i]) > ScoreNumber(Last(evals))

\* C4: a plan that parsed to the empty mapping ends the invocation with the
\* error result after the one planner call: no write, no evaluate, no
\* challenge-word call, no save.
C4_EmptyPlanFails ==
    plan = EmptyDict =>
        /\ pc = "done"
        /\ result = ErrorResult("Planning failed")
        /\ trace = <<"plan">>
        /\ drafts = <<>>
        /\ evals = <<>>
        /\ given = NothingGiven
        /\ html_saved = NoFile

\* the service answered the planner and the answer parsed to the empty mapping
C4_Witness ==
    /\ plan = EmptyDict
    /\ api_key
    /\ net = 1
    /\ pc = "done"

\* C10: an evaluation without a score never ends the loop Accepted; when it
\* is a mapping its score counts as 0, the attempt is counted, and the loop
\* writes again or, after the last attempt, ends Exhausted.
C10_MissingScoreNeverPasses ==
    \A i \in DOMAIN evals :
        ~HasScore(evals[i]) /\ i = Len(evals) =>
            /\ ~passed
            /\ ~Accepted
            /\ IsDict(evals[i]) =>
                  /\ score = PyInt(0)
                  /\ attempts = i
                  /\ IF i <= max_retries
                     THEN Writes = i + 1 /\ ~LoopExited
                     ELSE Exhausted

\* revising after an evaluation that failed to parse
C10_Witness ==
    /\ pc = "write"
    /\ evals # <<>>
    /\ Last(evals) = EmptyDict
    /\ score = PyInt(0)
    /\ critique = PyStr("No feedback provided.")

\* the wrapper gave up during a write, evaluate or challenge-word call and
\* its exception left generate_story_logic
TransientEscaped ==
    /\ result.kind = "raised"
    /\ result.exc = "APIError"
    /\ Last(trace) \in {"write", "evaluate", "challenge"}

\* the judge's output, parsed, made lines 495-499 raise
JudgeOutputEscaped ==
    /\ result.kind = "raised"
    /\ result.exc \in {"AttributeError", "TypeError"}
    /\ Last(trace) = "evaluate"

\* C11: an invocation gives an error outcome only when planning failed (a
\* missing credential included); no exhausted retry cap of a write, evaluate
\* or challenge-word call and no judge output of any shape leaves
\* generate_story_logic as an exception.
C11_OnlyPlanningErrors ==
    /\ ~TransientEscaped
    /\ ~JudgeOutputEscaped
    /\ result.kind = "error" => plan_failed(plan) /\ trace = <<"plan">>

\* C12: in one invocation the planner is called at most once and the
\* storyteller at most max_retries + 1 times, so at most max_retries + 1
\* drafts exist.
C12_CallBounds ==
    /\ Count(trace, "plan") <= 1
    /\ Writes <= max_retries + 1
    /\ Len(drafts) <= max_retries + 1
    /\ Len(drafts) <= Writes

\* the third draft has been written after the one planner call
C12_Witness ==
    /\ Count(trace, "plan") = 1
    /\ Len(drafts) = max_retries + 1
    /\ pc = "evaluate"

\* call_model invocations the code may still start after the one under way
CallsAfter(stage, att) ==
    CASE stage = "plan" -> 2 * (max_retries + 1) + 1
      [] stage = "write" -> 2 * (max_retries - att) + 2
      [] stage = "evaluate" -> 2 * (max_retries - att) + 1
      [] stage = "challenge" -> 0

\* a bound on the steps an invocation has left: each call_model invocation
\* takes at most Retries + 1 requests
StepsLeft ==
    CASE pc = "done" -> 0
      [] pc = "start" -> 1 + (2 * (max_retries + 1) + 2) * (Retries + 1)
      [] OTHER -> CallsAfter(pc, attempts) * (Retries + 1) + (Retries + 1 - x)

\* how a finished invocation ended
Outcome ==
    /\ pc = "done"
    /\ \/ result.kind = "ok" /\ (Accepted \/ Exhausted)
       \/ Failed /\ ~LoopExited
       \/ result.kind = "raised"

\* C13: every invocation terminates, as Accepted, Exhausted, Failed or with
\* an exception: it reaches its end, every step it takes lowers StepsLeft,
\* which never goes below 0, and at its end it has one of those outcomes.
C13_Terminates ==
    /\ <>(pc = "done")
    /\ [][StepsLeft' < StepsLeft]_vars
    /\ [](StepsLeft >= 0)
    /\ [](pc = "done" => Outcome)

\* an invocation that sent the most requests an invocation can send
C13_Witness ==
    /\ Outcome
    /\ result.kind = "ok"
    /\ Exhausted
    /\ net = (2 * (max_retries + 1) + 2) * (Retries + 1)

\* save_to_html has been called
SaveCalled == Count(trace, "save") > 0

\* C16: whatever the final story, the title and the challenge text are,
\* and whether or not the file could be written, no exception of
\* save_to_html leaves generate_story_logic: the invocation returns the
\* story, the challenge text and the reading time.
C16_SaveNeverRaises ==
    SaveCalled =>
        /\ result.kind = "ok"
        /\ result.story = story_text
        /\ result.challenges = challenges
        /\ result.reading_time = reading_time

\* C18: an invocation that ended Accepted or Exhausted returns the story,
\* the challenge text, the reading time and, when the file was written, the
\* name of that file, which is not empty.
C18_ArtifactReturned ==
    result.kind = "ok" =>
        /\ Accepted \/ Exhausted
        /\ result.story = story_text
        /\ result.challenges = challenges
        /\ result.reading_time = reading_time
        /\ html_saved # NoFile =>
              /\ result.html_file = PyStr(html_saved.filename)
              /\ Truthy(result.html_file)

\* C21: the first write call gets no critique; every later write call
\* quotes in its revision directive the feedback of the evaluation just
\* before it, whatever that feedback is, the empty text included, and never
\* the feedback of an older evaluation.
C21_CritiqueForwarded ==
    pc = "write" =>
        IF evals = <<>>
        THEN directive = PyNone
        ELSE directive = eval_feedback(Last(evals))

\* the calls of a run of cycles write and evaluate cycles, in order
ExpectedTrace(cycles) ==
    <<"plan">>
        \o [i \in 1..(2 * cycles) |-> IF i % 2 = 1 THEN "write" ELSE "evaluate"]
        \o <<"challenge", "save">>

IsPrefix(s1, s2) == Len(s1) <= Len(s2) /\ s1 = SubSeq(s2, 1, Len(s1))

\* the call_model invocations made so far
Invocations == Len(trace) - Count(trace, "save")

\* C23: a run of c cycles that reached its save made 2c + 2 call_model
\* invocations: one plan, c write and evaluate pairs in turn, one
\* challenge-word call, and then one save; the calls made so far are at
\* every moment a beginning of such a run; no invocation makes more than 8
\* call_model invocations or sends more than 32 requests.
C23_CallOrder ==
    /\ SaveCalled =>
          /\ Len(evals) \in 1..3
          /\ trace = ExpectedTrace(Len(evals))
          /\ Invocations = 2 * Len(evals) + 2
          /\ Count(trace, "save") = 1
    /\ result.kind = "ok" => SaveCalled /\ (Accepted \/ Exhausted)
    /\ \E c \in 1..3 : IsPrefix(trace, ExpectedTrace(c))
    /\ Invocations <= 8
    /\ net <= 32

\* a run accepted at its third evaluation, after 8 invocations that each
\* needed 4 requests
C23_Witness ==
    /\ result.kind = "ok"
    /\ Accepted
    /\ Len(evals) = 3
    /\ Invocations = 8
    /\ net = 32

----------------------------------------------------------------------------
(* SpecParse: parse_json_output applied to response texts.                 *)

MaxTextLen == 3

\* every text of at most n tokens
RECURSIVE TextsUpTo(_)
TextsUpTo(n) ==
    IF n = 0 THEN {<<>>}
    ELSE LET shorter == TextsUpTo(n - 1) IN
         shorter \cup {Append(s, tok) : s \in shorter, tok \in Tokens}

\* texts that are one JSON object
ObjectDocs ==
    { <<"{", "}">>,
      <<"{", KEYSCORE, "9", "}">>,
      <<"{", KEYSCORE, STRFENCE, "}">>,
      <<"{", KEYSCORE, "3", ",", WS, KEYFEEDBACK, WS, STRPLAIN, "}">>,
      <<"{", KEYSETUP, "[", "9", ",", "8", "]", "}">>,
      <<"{", KEYSETUP, "{", KEYSCORE, NULLTOK, "}", "}">> }

\* texts that are JSON but no object, and texts that are no JSON
OtherDocs ==
    { <<"[", "9", "]">>, <<"9">>, <<STRPLAIN>>, <<NULLTOK>>, <<WORD>>, <<>> }

FenceTags == {"", TAGJSON, WORD}

\* body inside an opening marker with a tag and a closing marker
Fenced(lead, tag, body, trail) ==
    lead \o <<FENCE>> \o (IF tag = "" THEN <<>> ELSE <<tag>>) \o <<WS>>
         \o body \o <<WS, FENCE>> \o trail

InitParse ==
    /\ IdleProc
    /\ IdleCalls
    /\ IdlePipe
    /\ p_pc = "ready"
    /\ p_res_body = PyNone
    /\ p_res_text = PyNone
    /\ \/ /\ p_body \in TextsUpTo(MaxTextLen)
          /\ p_text = p_body
          /\ p_wrapped = FALSE
          /\ p_tag = ""
       \/ /\ p_body \in ObjectDocs \cup OtherDocs
          /\ p_tag \in FenceTags
          /\ \E lead \in {<<>>, <<WS>>}, trail \in {<<>>, <<WS>>} :
                p_text = Fenced(lead, p_tag, p_body, trail)
          /\ p_wrapped = TRUE
    /\ IdleUtil

ParseCall ==
    /\ p_pc = "ready"
    /\ p_res_body' = parse_json_output(p_body)
    /\ p_res_text' = parse_json_output(p_text)
    /\ p_pc' = "done"
    /\ UNCHANGED <<p_body, p_text, p_wrapped, p_tag>>
    /\ UNCHANGED <<procVars, callVars, pipeVars, utilVars>>

NextParse == ParseCall

SpecParse == InitParse /\ [][NextParse]_vars

\* the text is a single JSON object
IsObjectText(s) ==
    LET r == json_loads(s) IN ~r.raised /\ IsDict(r.v)

\* C8: parse_json_output returns a mapping for every text, and the empty
\* mapping for every text that is not a single JSON object.
C8_AlwaysMapping ==
    p_pc = "done" =>
        /\ IsDict(p_res_text)
        /\ (~IsObjectText(strip(p_text)) /\ ~p_wrapped => p_res_text = EmptyDict)

\* C9: a JSON object text inside fence markers, with any language tag or
\* none and surrounding whitespace, parses to the mapping the object text
\* itself parses to.
C9_FencedEqualsBare ==
    p_pc = "done" /\ p_wrapped /\ IsObjectText(p_body) =>
        /\ p_res_text = p_res_body
        /\ p_res_body = json_loads(p_body).v

----------------------------------------------------------------------------
(* SpecRoute: one POST /generate request, from the request body's age      *)
(* member to the guidelines generate_story_logic looks up first.  An age   *)
(* text is a sequence of characters.                                       *)

MaxAge == 12
MaxAgeLen == 2

\* the age used when the body has no age member
DefaultAge == 7

\* the highest age of the first and of the second bucket
YoungMaxAge == 6
MiddleMaxAge == 8

\* the body has no age member
Absent == [t |-> "absent"]

\* a text value, by its characters
PyChars(c) == [t |-> "str", c |-> c]

AgeChars == {WS, "-", "a"} \cup DigitTok

AgeTexts == UNION {[1..n -> AgeChars] : n \in 0..MaxAgeLen}

\* what the age member of a body may be: missing, null, a text, an integer
AgeFields ==
    {Absent, PyNone}
        \cup {PyChars(c) : c \in AgeTexts}
        \cup {PyInt(n) : n \in (0 - MaxAge)..MaxAge}

\* data.get('age', default)
data_get(field, default) == IF field = Absent THEN default ELSE field

AllDigits(s) == s # <<>> /\ \A i \in DOMAIN s : s[i] \in DigitTok

RECURSIVE DigitsValue(_)
DigitsValue(s) ==
    IF s = <<>> THEN 0
    ELSE 10 * DigitsValue(SubSeq(s, 1, Len(s) - 1)) + DigitVal(s[Len(s)])

IntOk(n) == [ok |-> TRUE, n |-> n, exc |-> ""]
IntRaises(exc) == [ok |-> FALSE, n |-> 0, exc |-> exc]

\* int(v) for a text: surrounding whitespace goes, a sign may lead, digits
\* must follow and nothing else
int_of_text(s) ==
    LET body == strip(s)
        negative == body # <<>> /\ Head(body) = "-"
        digits == IF negative THEN Tail(body) ELSE body
    IN  IF AllDigits(digits)
        THEN IntOk(IF negative THEN 0 - DigitsValue(digits)
                   ELSE DigitsValue(digits))
        ELSE IntRaises("ValueError")

\* int(v)
int_of(v) ==
    CASE v.t = "int" -> IntOk(v.n)
      [] v.t = "str" -> int_of_text(v.c)
      [] v.t = "None" -> IntRaises("TypeError")

YoungProfile ==
    [style |-> "Simple, repetitive, and rhythmic.",
     vocabulary |-> "Concrete nouns and action verbs.",
     themes |-> "Friendship, sharing, daily routines",
     complexity |-> "Linear plot."]

MiddleProfile ==
    [style |-> "Engaging and descriptive.",
     vocabulary |-> "Wider range",
     themes |-> "Empathy, courage, problem-solving",
     complexity |-> "Character having a clear goal."]

OlderProfile ==
    [style |-> "Sophisticated and immersive.",
     vocabulary |-> "Rich, specific, and abstract words",
     themes |-> "Identity, loyalty, moral dilemmas",
     complexity |-> "Subplots allowed."]

Profiles == {YoungProfile, MiddleProfile, OlderProfile}

\* buckets that end one year early
get_age_guidelines_early(age) ==
    IF age < YoungMaxAge THEN YoungProfile
    ELSE IF age < MiddleMaxAge THEN MiddleProfile
    ELSE OlderProfile

\* "if age <= 6 ... elif age <= 8 ... else"
get_age_guidelines(age) ==
    IF age <= YoungMaxAge THEN YoungProfile
    ELSE IF age <= MiddleMaxAge THEN MiddleProfile
    ELSE OlderProfile

InitRoute ==
    /\ IdleProc
    /\ IdleCalls
    /\ IdlePipe
    /\ IdleParse
    /\ IdleRetry
    /\ IdleRead
    /\ g_pc = "request"
    /\ g_age_field \in AgeFields
    /\ g_age = Unset
    /\ g_outcome = "none"
    /\ g_guidelines = NoText

\* generate(): int(data.get('age', 7)) is evaluated, and when it does not
\* raise generate_story_logic is called with it
Generate ==
    /\ g_pc = "request"
    /\ LET r == int_of(data_get(g_age_field, PyInt(DefaultAge))) IN
        IF r.ok
        THEN /\ g_age' = PyInt(r.n)
             /\ g_outcome' = "called"
             /\ g_pc' = "logic"
        ELSE /\ g_outcome' = r.exc
             /\ g_pc' = "done"
             /\ UNCHANGED g_age
    /\ UNCHANGED <<g_age_field, g_guidelines>>
    /\ UNCHANGED <<procVars, callVars, pipeVars, parseVars, retryVars,
                   readVars>>

\* generate_story_logic, line 466: guidelines = get_age_guidelines(age)
Guidelines ==
    /\ g_pc = "logic"
    /\ g_guidelines' = get_age_guidelines(g_age.n)
    /\ g_pc' = "done"
    /\ UNCHANGED <<g_age_field, g_age, g_outcome>>
    /\ UNCHANGED <<procVars, callVars, pipeVars, parseVars, retryVars,
                   readVars>>

NextRoute == Generate \/ Guidelines

SpecRoute == InitRoute /\ [][NextRoute]_vars

\* the age member is missing, null, or a text that spells no integer
InvalidAge(field) ==
    \/ field \in {Absent, PyNone}
    \/ field.t = "str" /\ ~int_of_text(field.c).ok

\* C17: a request whose age is missing or invalid (null, empty, not a
\* number) is processed with age 7, and an integer age is passed on as it
\* is.
C17_InvalidAgeIsDefault ==
    g_pc # "request" =>
        /\ InvalidAge(g_age_field) =>
              g_outcome = "called" /\ g_age = PyInt(DefaultAge)
        /\ g_age_field.t = "int" =>
              g_outcome = "called" /\ g_age = g_age_field

\* C20: get_age_guidelines gives every integer age one of three profiles,
\* by the age alone: the first up to 6, the second for 7 and 8, the third
\* from 9 on; looking the profile up changes nothing else.
C20_GuidelineBuckets ==
    /\ [](g_pc = "done" /\ g_outcome = "called" =>
             /\ g_guidelines \in Profiles
             /\ g_age.n <= 6 <=> g_guidelines = YoungProfile
             /\ g_age.n \in 7..8 <=> g_guidelines = MiddleProfile
             /\ g_age.n >= 9 <=> g_guidelines = OlderProfile)
    /\ [][g_pc = "logic" =>
             UNCHANGED <<procVars, callVars, pipeVars, parseVars, retryVars,
                         readVars, g_age_field, g_age, g_outcome>>]_vars

\* the profile of an age at the top of the second bucket, and of a
\* negative age
C20_Witness ==
    /\ g_pc = "done"
    /\ g_outcome = "called"
    /\ \/ g_age = PyInt(MiddleMaxAge) /\ g_guidelines = MiddleProfile
       \/ g_age.n < 0 /\ g_guidelines = YoungProfile

----------------------------------------------------------------------------
(* SpecRead: estimate_reading_time applied to texts of words and           *)
(* whitespace, character by character.                                     *)

MaxWords == 301

\* a character of a word
LETTER == "w"

\* count words separated by single blanks, after lead and before trail
TextOf(count, lead, trail) ==
    lead \o [i \in 1..(IF count = 0 THEN 0 ELSE 2 * count - 1) |->
                 IF i % 2 = 1 THEN LETTER ELSE WS] \o trail

\* len(text.split()): the runs of characters that are not whitespace
split_count(s) ==
    Cardinality({i \in DOMAIN s : s[i] # WS /\ (i = 1 \/ s[i - 1] = WS)})

InitRead ==
    /\ IdleProc
    /\ IdleCalls
    /\ IdlePipe
    /\ IdleParse
    /\ IdleRetry
    /\ IdleRoute
    /\ e_pc = "ready"
    /\ e_words \in 0..MaxWords
    /\ \E lead \in {<<>>, <<WS>>}, trail \in {<<>>, <<WS, WS>>} :
          e_text = TextOf(e_words, lead, trail)
    /\ e_time = Unset

\* estimate_reading_time(e_text)
EstimateReadingTime ==
    /\ e_pc = "ready"
    /\ e_time' = min_read(reading_minutes(split_count(e_text)))
    /\ e_pc' = "done"
    /\ UNCHANGED <<e_text, e_words>>
    /\ UNCHANGED <<procVars, callVars, pipeVars, parseVars, retryVars,
                   routeVars>>

NextRead == EstimateReadingTime

SpecRead == InitRead /\ [][NextRead]_vars

\* C19: the minutes estimate_reading_time returns are the least whole
\* number m with 150 * m >= word_count: 1 for 150 words, 2 for 151 and for
\* 300, 3 for 301, 0 for none.
C19_ReadingTimeCeiling ==
    e_pc = "done" =>
        /\ e_time[2] = "min read"
        /\ e_time[1] \in Nat
        /\ 150 * e_time[1] >= e_words
        /\ \A m \in 0..(e_time[1] - 1) : 150 * m < e_words
        /\ e_words = 150 => e_time[1] = 1
        /\ e_words = 151 => e_time[1] = 2
        /\ e_words = 300 => e_time[1] = 2

\* the estimate for a text of 151 words with whitespace around it
C19_Witness ==
    /\ e_pc = "done"
    /\ e_words = 151
    /\ Head(e_text) = WS
    /\ e_time = <<2, "min read">>

====
